---- MODULE Spec2Model ----
(***************************************************************************)
(* Model of jobs/jobs.py: the CustomCSVImport job.                         *)
(*                                                                         *)
(* Three entry points of the class are modelled: run() as it is written    *)
(* (its row loop fetches or creates one State and one City Location per    *)
(* row; the calls to the two helpers are commented out, lines 212-215),    *)
(* and the two helper methods _perform_operation and                       *)
(* _perform_atomic_operation, invoked directly with a decoded data list.   *)
(* run() executes outside any database transaction: the source opens none  *)
(* around it.                                                              *)
(* A method may be invoked again with the same arguments on the store its   *)
(* previous invocation left (Rerun).                                       *)
(***************************************************************************)
EXTENDS Integers, Sequences, FiniteSets, TLC

\* Longest decoded input (number of rows) the model explores.
MaxRows == 2

\* Number of times the method is invoked in a row, on the same store.
MaxRuns == 2

----------------------------------------------------------------------------
\* Data

\* us_states, lines 20-72, restricted to two of its 51 entries.
StateCodes == {"TX", "CA"}
us_states == [c \in StateCodes |-> IF c = "TX" THEN "Texas" ELSE "California"]
us_states_values == {us_states[c] : c \in StateCodes}

\* self.user
User == "operator"


\* Python truthiness of the csv_data / csv_file arguments.
CsvDataVals == {"None", "", "name,city,state"}
CsvFileVals == {"None", "file"}
Truthy(x) == x \notin {"None", ""}

\* serializer.errors of a row: a sequence of <<field, messages>> items.
NoErrors == <<>>
ErrorDicts ==
    { NoErrors,
      << <<"name", <<"required">>>> >>,
      << <<"name", <<"blank", "too short">>>>, <<"state", <<"invalid">>>> >> }

\* Rows as the CSV parser hands them to run(): name, city, state.
RunRows ==
    [name : {"B1"}, city : {"Austin", "Dallas"}, state : {"TX", "Texas", "ZZ"},
     errors : {NoErrors}, visible : {TRUE}]

\* Rows as handed to _perform_operation: what matters of an entry is the
\* serializer's verdict on it and whether the restricted queryset contains
\* the object saved from it.
OpRows ==
    { r \in [name : {"B1"}, city : {"Austin"}, state : {"TX"},
             errors : ErrorDicts, visible : BOOLEAN] :
        r.errors # NoErrors => r.visible }

\* The value of data while the name is unbound: no decoded list equals it.
NoData ==
    <<[name |-> "unbound", city |-> "", state |-> "", errors |-> NoErrors,
       visible |-> TRUE]>>

SeqsUpTo(S, n) == UNION {[1..k -> S] : k \in 0..n}

\* A stored record.
Rec(pk, nm, tp) == [pk |-> pk, name |-> nm, type |-> tp, status |-> "Active"]

InitialStores ==
    { {},
      {Rec(1, "Texas", "State")},
      {Rec(1, "TX", "State"), Rec(2, "Austin", "City")},
      {[Rec(1, "TX", "State") EXCEPT !.status = "Planned"]} }

Entry(level, msg, r, n, field, text) ==
    [level |-> level, msg |-> msg, row |-> r, n |-> n, field |-> field,
     text |-> text, user |-> User]

VARIABLES
    entry,              \* the method invoked
    has_perm,           \* self.user.has_perm(add_<model>)
    model_found,        \* content_type.model_class() is not None
    serializer_found,   \* get_serializer_for_model(model) succeeds
    csv_data, csv_file, \* arguments of run()
    roll_back_if_error, \* argument of run()
    csv_bytes,          \* the stream run() builds
    store0,             \* the store when the method was entered
    store,              \* the store: a set of records
    savepoints,         \* stack of open transaction.atomic() blocks
    next_pk,            \* next primary key the store hands out
    data,               \* decoded rows
    row,                \* rows the loop has iterated over
    processed,          \* positions of the rows the loop body ran for
    new_objs,
    validation_failed,
    log,                \* self.logger, append only
    calls,              \* how often each collaborator was called
    exc,                \* the exception the method raised
    ret,                \* what the helper returned
    pc,
    pk0,                \* next_pk when the method was entered
    run_no,             \* which invocation this is
    prev                \* how the previous invocation ended

vars == <<entry, has_perm, model_found, serializer_found, csv_data, csv_file,
          roll_back_if_error, csv_bytes, store0, store, savepoints, next_pk,
          data, row, processed, new_objs, validation_failed, log, calls, exc,
          ret, pc, pk0, run_no, prev>>

inputs == <<entry, has_perm, model_found, serializer_found, csv_data, csv_file,
            roll_back_if_error, store0, pk0, run_no, prev>>

NoPrev ==
    [data |-> NoData, store0 |-> {}, store |-> {}, pc |-> "None", exc |-> "None",
     validation_failed |-> FALSE]

NoCalls == [has_perm |-> 0, model_class |-> 0, get_serializer |-> 0, parse |-> 0]

Called(what) == [calls EXCEPT ![what] = @ + 1]

InitCommon ==
    /\ store0 \in InitialStores
    /\ store = store0
    /\ savepoints = <<>>
    /\ next_pk = Cardinality(store0) + 1
    /\ pk0 = next_pk
    /\ run_no = 1
    /\ prev = NoPrev
    /\ csv_bytes = "None"
    /\ row = 0
    /\ processed = <<>>
    /\ new_objs = <<>>
    /\ validation_failed = FALSE
    /\ log = <<>>
    /\ calls = NoCalls
    /\ exc = "None"
    /\ ret = <<"None">>

InitRun ==
    /\ entry = "run"
    /\ has_perm \in BOOLEAN
    /\ model_found \in BOOLEAN
    /\ serializer_found \in BOOLEAN
    /\ csv_data \in CsvDataVals
    /\ csv_file \in CsvFileVals
    /\ roll_back_if_error \in BOOLEAN
    /\ data = NoData
    /\ pc = "run"

InitOp ==
    /\ entry \in {"_perform_operation", "_perform_atomic_operation"}
    /\ has_perm = TRUE
    /\ model_found = TRUE
    /\ serializer_found = TRUE
    /\ csv_data = "None"
    /\ csv_file = "None"
    /\ roll_back_if_error = (entry = "_perform_atomic_operation")
    /\ data \in SeqsUpTo(OpRows, MaxRows)
    /\ pc = IF entry = "_perform_atomic_operation" THEN "atomic" ELSE "op"

Init == InitCommon /\ (InitRun \/ InitOp)

Raise(e) == exc' = e /\ pc' = "raised"

----------------------------------------------------------------------------
\* run(), lines 151-230

\* RunCheckPermission with the raise of line 154 missing: the denial is only
\* logged.
RunCheckPermission_LogsOnly ==
    /\ pc = "run"
    /\ calls' = Called("has_perm")
    /\ log' = IF ~has_perm
                THEN Append(log, Entry("error", "no create permission", 0, 0, "", ""))
                ELSE log
    /\ pc' = "run_model"
    /\ UNCHANGED <<inputs, csv_bytes, store, savepoints, next_pk, data, row,
                   processed, new_objs, validation_failed, exc, ret>>

\* lines 152-154
RunCheckPermission ==
    /\ pc = "run"
    /\ calls' = Called("has_perm")
    /\ IF ~has_perm
         THEN /\ log' = Append(log, Entry("error", "no create permission", 0, 0, "", ""))
              /\ Raise("PermissionDenied")
         ELSE /\ pc' = "run_model"
              /\ UNCHANGED <<log, exc>>
    /\ UNCHANGED <<inputs, csv_bytes, store, savepoints, next_pk, data, row,
                   processed, new_objs, validation_failed, ret>>

\* lines 156-163
RunResolveModel ==
    /\ pc = "run_model"
    /\ calls' = Called("model_class")
    /\ IF ~model_found
         THEN /\ log' = Append(log, Entry("error", "data model not found", 0, 0, "", ""))
              /\ Raise("RunJobTaskFailed: Model not found")
         ELSE /\ pc' = "run_serializer"
              /\ UNCHANGED <<log, exc>>
    /\ UNCHANGED <<inputs, csv_bytes, store, savepoints, next_pk, data, row,
                   processed, new_objs, validation_failed, ret>>

\* RunResolveSerializer with the re-raise of line 172 missing.
RunResolveSerializer_LogsOnly ==
    /\ pc = "run_serializer"
    /\ calls' = Called("get_serializer")
    /\ log' = IF ~serializer_found
                THEN Append(log, Entry("error", "data serializer not found", 0, 0, "", ""))
                ELSE log
    /\ pc' = "run_input"
    /\ UNCHANGED <<inputs, csv_bytes, store, savepoints, next_pk, data, row,
                   processed, new_objs, validation_failed, exc, ret>>

\* lines 164-173
RunResolveSerializer ==
    /\ pc = "run_serializer"
    /\ calls' = Called("get_serializer")
    /\ IF ~serializer_found
         THEN /\ log' = Append(log, Entry("error", "data serializer not found", 0, 0, "", ""))
              /\ Raise("SerializerNotFound")
         ELSE /\ pc' = "run_input"
              /\ UNCHANGED <<log, exc>>
    /\ UNCHANGED <<inputs, csv_bytes, store, savepoints, next_pk, data, row,
                   processed, new_objs, validation_failed, ret>>

\* RunCheckInput testing "is None" instead of truthiness at line 175.
RunCheckInput_IsNone ==
    /\ pc = "run_input"
    /\ IF csv_data = "None" /\ csv_file = "None"
         THEN /\ Raise("RunJobTaskFailed: Either csv_data or csv_file must be provided")
              /\ UNCHANGED csv_bytes
         ELSE /\ csv_bytes' = IF Truthy(csv_file) THEN "file" ELSE "text"
              /\ pc' = "run_parse"
              /\ UNCHANGED exc
    /\ UNCHANGED <<inputs, store, savepoints, next_pk, data, row, processed,
                   new_objs, validation_failed, log, calls, ret>>

\* lines 175-182
RunCheckInput ==
    /\ pc = "run_input"
    /\ IF ~Truthy(csv_data) /\ ~Truthy(csv_file)
         THEN /\ Raise("RunJobTaskFailed: Either csv_data or csv_file must be provided")
              /\ UNCHANGED csv_bytes
         ELSE /\ csv_bytes' = IF Truthy(csv_file) THEN "file" ELSE "text"
              /\ pc' = "run_parse"
              /\ UNCHANGED exc
    /\ UNCHANGED <<inputs, store, savepoints, next_pk, data, row, processed,
                   new_objs, validation_failed, log, calls, ret>>

\* What the parser makes of the input: a ParseError (NoData) or the rows.  The
\* same input parses the same way when the job is run again.
ParseOutcomes ==
    IF run_no = 1 THEN SeqsUpTo(RunRows, MaxRows) \cup {NoData} ELSE {prev.data}

\* Whether the LocationType and Status lookups of lines 195-199 succeed; the
\* job writes none of these, so a later run finds what the earlier one found.
LookupOutcomes ==
    IF run_no = 1 THEN BOOLEAN ELSE {prev.exc # "DoesNotExist"}

\* RunParse with the handler of line 216 logging the error without setting
\* validation_failed.
RunParse_ErrorNotFatal ==
    /\ pc = "run_parse"
    /\ calls' = Called("parse")
    /\ new_objs' = <<>>
    /\ \E d \in ParseOutcomes :
          IF d = NoData
            THEN /\ validation_failed' = FALSE
                 /\ log' = Append(log, Entry("error", "parse error", 0, 0, "", ""))
                 /\ pc' = "run_summary"
                 /\ UNCHANGED data
            ELSE /\ data' = d
                 /\ log' = Append(log, Entry("info", "Processing rows", 0, Len(d), "", ""))
                 /\ pc' = "run_types"
                 /\ UNCHANGED validation_failed
    /\ UNCHANGED <<inputs, csv_bytes, store, savepoints, next_pk, row,
                   processed, exc, ret>>

\* lines 184-191 and 216-218: the parser either raises ParseError, caught at
\* line 216, or returns the rows.
RunParse ==
    /\ pc = "run_parse"
    /\ calls' = Called("parse")
    /\ new_objs' = <<>>
    /\ \E d \in ParseOutcomes :
          IF d = NoData
            THEN /\ validation_failed' = TRUE
                 /\ log' = Append(log, Entry("error", "parse error", 0, 0, "", ""))
                 /\ pc' = "run_summary"
                 /\ UNCHANGED data
            ELSE /\ data' = d
                 /\ log' = Append(log, Entry("info", "Processing rows", 0, Len(d), "", ""))
                 /\ pc' = "run_types"
                 /\ UNCHANGED validation_failed
    /\ UNCHANGED <<inputs, csv_bytes, store, savepoints, next_pk, row,
                   processed, exc, ret>>

\* lines 195-201: the four LocationType lookups and the Status lookup raise
\* DoesNotExist when the store lacks one of them.
RunLookupTypes ==
    /\ pc = "run_types"
    /\ \E found \in LookupOutcomes :
          IF ~found
            THEN /\ Raise("DoesNotExist")
                 /\ UNCHANGED <<validation_failed, row>>
            ELSE /\ validation_failed' = FALSE
                 /\ row' = 0
                 /\ pc' = "run_loop"
                 /\ UNCHANGED exc
    /\ UNCHANGED <<inputs, csv_bytes, store, savepoints, next_pk, data,
                   processed, new_objs, log, calls, ret>>

\* get_or_create replaced by create: a record is written whether or not one
\* matches.
GetOrCreate_AlwaysCreates(st, pk, nm, tp) ==
    [store |-> st \cup {Rec(pk, nm, tp)}, next_pk |-> pk + 1, created |-> TRUE]

\* Location.objects.get_or_create(name=, type=, status=active_status): the
\* store after the call, and the key after it.
Matching(st, nm, tp) == {r \in st : r.name = nm /\ r.type = tp /\ r.status = "Active"}

GetOrCreate(st, pk, nm, tp) ==
    IF Matching(st, nm, tp) # {}
      THEN [store |-> st, next_pk |-> pk, created |-> FALSE]
      ELSE [store |-> st \cup {Rec(pk, nm, tp)}, next_pk |-> pk + 1, created |-> TRUE]

\* lines 203-205
StateName(obj) == IF obj.state \in DOMAIN us_states THEN us_states[obj.state] ELSE obj.state

\* RunRow with continue instead of break at line 208.
RunRow_NoBreak ==
    /\ pc = "run_loop"
    /\ row < Len(data)
    /\ LET obj == data[row + 1]
           state_name == StateName(obj)
           s == GetOrCreate(store, next_pk, obj.state, "State")
           c == GetOrCreate(s.store, s.next_pk, obj.city, "City")
       IN  /\ processed' = Append(processed, row + 1)
           /\ row' = row + 1
           /\ IF state_name \notin us_states_values
                THEN /\ validation_failed' = TRUE
                     /\ UNCHANGED <<store, next_pk, pc>>
                ELSE /\ store' = c.store
                     /\ next_pk' = c.next_pk
                     /\ UNCHANGED <<validation_failed, pc>>
    /\ UNCHANGED <<inputs, csv_bytes, savepoints, data, new_objs, log, calls,
                   exc, ret>>

\* lines 202-210, one iteration
RunRow ==
    /\ pc = "run_loop"
    /\ row < Len(data)
    /\ LET obj == data[row + 1]
           state_name == StateName(obj)
           s == GetOrCreate(store, next_pk, obj.state, "State")
           c == GetOrCreate(s.store, s.next_pk, obj.city, "City")
       IN  /\ processed' = Append(processed, row + 1)
           /\ IF state_name \notin us_states_values
                THEN /\ validation_failed' = TRUE
                     /\ pc' = "run_summary"
                     /\ UNCHANGED <<store, next_pk, row>>
                ELSE /\ store' = c.store
                     /\ next_pk' = c.next_pk
                     /\ row' = row + 1
                     /\ UNCHANGED <<validation_failed, pc>>
    /\ UNCHANGED <<inputs, csv_bytes, savepoints, data, new_objs, log, calls,
                   exc, ret>>

\* line 202, the loop is exhausted
RunLoopEnd ==
    /\ pc = "run_loop"
    /\ row = Len(data)
    /\ pc' = "run_summary"
    /\ UNCHANGED <<inputs, csv_bytes, store, savepoints, next_pk, data, row,
                   processed, new_objs, validation_failed, log, calls, exc, ret>>

\* lines 220-225
RunSummary ==
    /\ pc = "run_summary"
    /\ log' = IF new_objs # <<>>
                THEN Append(log, Entry("info", "Created objects", 0, Len(new_objs), "", ""))
                ELSE Append(log, Entry("warning", "No objects were created", 0, 0, "", ""))
    /\ pc' = "run_finish"
    /\ UNCHANGED <<inputs, csv_bytes, store, savepoints, next_pk, data, row,
                   processed, new_objs, validation_failed, calls, exc, ret>>

\* lines 227-230
RunFinish ==
    /\ pc = "run_finish"
    /\ IF validation_failed
         THEN IF roll_back_if_error
                THEN Raise("RunJobTaskFailed: all imports were rolled back")
                ELSE Raise("RunJobTaskFailed: not fully successful")
         ELSE pc' = "done" /\ UNCHANGED exc
    /\ UNCHANGED <<inputs, csv_bytes, store, savepoints, next_pk, data, row,
                   processed, new_objs, validation_failed, log, calls, ret>>

----------------------------------------------------------------------------
\* _perform_operation, lines 125-149

\* FieldErrorEntries leaving the loop of line 147 after the first field.
FieldErrorEntries_FirstFieldOnly(idx, errors) ==
    [k \in 1..1 |->
        Entry("error", "field error", idx, 0, errors[k][1], errors[k][2][1])]

\* lines 147-148: one error entry per failing field, carrying err[0]
FieldErrorEntries(idx, errors) ==
    [k \in 1..Len(errors) |->
        Entry("error", "field error", idx, 0, errors[k][1], errors[k][2][1])]

\* PerformRow without the inner transaction.atomic() of line 132: the object
\* that fails the visibility check stays saved.
PerformRow_KeepsUnseen(st, pk, idx, e) ==
    IF e.errors = NoErrors
      THEN LET new_obj == Rec(pk, e.name, "Object")
               saved == st \cup {new_obj}
           IN  IF e.visible
                 THEN [store |-> saved, next_pk |-> pk + 1, objs |-> <<new_obj>>,
                       failed |-> FALSE,
                       entries |-> <<Entry("info", "Created record", idx, new_obj.pk, "", "")>>]
                 ELSE [store |-> saved, next_pk |-> pk + 1, objs |-> <<>>,
                       failed |-> TRUE,
                       entries |-> <<Entry("error", "no permission for row", idx, 0, "", "")>>]
      ELSE [store |-> st, next_pk |-> pk, objs |-> <<>>, failed |-> TRUE,
            entries |-> FieldErrorEntries(idx, e.errors)]

\* PerformRow saving before it looks at is_valid(): the object of a row that
\* fails validation is written too.
PerformRow_SavesInvalid(st, pk, idx, e) ==
    LET new_obj == Rec(pk, e.name, "Object")
        saved == st \cup {new_obj}
    IN  IF e.errors = NoErrors
          THEN IF e.visible
                 THEN [store |-> saved, next_pk |-> pk + 1, objs |-> <<new_obj>>,
                       failed |-> FALSE,
                       entries |-> <<Entry("info", "Created record", idx, new_obj.pk, "", "")>>]
                 ELSE [store |-> st, next_pk |-> pk + 1, objs |-> <<>>,
                       failed |-> TRUE,
                       entries |-> <<Entry("error", "no permission for row", idx, 0, "", "")>>]
          ELSE [store |-> saved, next_pk |-> pk + 1, objs |-> <<>>, failed |-> TRUE,
                entries |-> FieldErrorEntries(idx, e.errors)]

\* lines 129-148, the body of the loop for the entry e at position idx:
\* the inner transaction.atomic() restores the store when AbortTransaction
\* leaves it.
PerformRow(st, pk, idx, e) ==
    IF e.errors = NoErrors
      THEN LET new_obj == Rec(pk, e.name, "Object")
               savepoint == st
               saved == st \cup {new_obj}
           IN  IF new_obj \in {r \in saved : e.visible}
                 THEN [store |-> saved, next_pk |-> pk + 1, objs |-> <<new_obj>>,
                       failed |-> FALSE,
                       entries |-> <<Entry("info", "Created record", idx, new_obj.pk, "", "")>>]
                 ELSE [store |-> savepoint, next_pk |-> pk + 1, objs |-> <<>>,
                       failed |-> TRUE,
                       entries |-> <<Entry("error", "no permission for row", idx, 0, "", "")>>]
      ELSE [store |-> st, next_pk |-> pk, objs |-> <<>>, failed |-> TRUE,
            entries |-> FieldErrorEntries(idx, e.errors)]

\* lines 126-127
OpStart ==
    /\ pc = "op"
    /\ new_objs' = <<>>
    /\ validation_failed' = FALSE
    /\ row' = 0
    /\ pc' = "op_loop"
    /\ UNCHANGED <<inputs, csv_bytes, store, savepoints, next_pk, data,
                   processed, log, calls, exc, ret>>

\* OpRow with enumerate(data) lacking start=1 at line 128.
OpRow_ZeroBased ==
    /\ pc = "op_loop"
    /\ row < Len(data)
    /\ LET r == PerformRow(store, next_pk, row, data[row + 1])
       IN  /\ store' = r.store
           /\ next_pk' = r.next_pk
           /\ new_objs' = new_objs \o r.objs
           /\ validation_failed' = (validation_failed \/ r.failed)
           /\ log' = log \o r.entries
    /\ processed' = Append(processed, row + 1)
    /\ row' = row + 1
    /\ UNCHANGED <<inputs, csv_bytes, savepoints, data, calls, exc, ret, pc>>

\* lines 128-148, one iteration
OpRow ==
    /\ pc = "op_loop"
    /\ row < Len(data)
    /\ LET r == PerformRow(store, next_pk, row + 1, data[row + 1])
       IN  /\ store' = r.store
           /\ next_pk' = r.next_pk
           /\ new_objs' = new_objs \o r.objs
           /\ validation_failed' = (validation_failed \/ r.failed)
           /\ log' = log \o r.entries
    /\ processed' = Append(processed, row + 1)
    /\ row' = row + 1
    /\ UNCHANGED <<inputs, csv_bytes, savepoints, data, calls, exc, ret, pc>>

\* line 149
OpReturn ==
    /\ pc = "op_loop"
    /\ row = Len(data)
    /\ IF entry = "_perform_atomic_operation"
         THEN pc' = "atomic_exit" /\ UNCHANGED ret
         ELSE /\ ret' = <<new_objs, validation_failed>>
              /\ pc' = "done"
    /\ UNCHANGED <<inputs, csv_bytes, store, savepoints, next_pk, data, row,
                   processed, new_objs, validation_failed, log, calls, exc>>

----------------------------------------------------------------------------
\* _perform_atomic_operation, lines 113-123

\* lines 114-116: the outer transaction.atomic() block is entered
AtomicEnter ==
    /\ pc = "atomic"
    /\ new_objs' = <<>>
    /\ savepoints' = Append(savepoints, store)
    /\ pc' = "op"
    /\ UNCHANGED <<inputs, csv_bytes, store, next_pk, data, row, processed,
                   validation_failed, log, calls, exc, ret>>

\* lines 118-123: AbortTransaction leaves the block and rolls it back, and is
\* suppressed; otherwise the block commits.
AtomicExit ==
    /\ pc = "atomic_exit"
    /\ IF validation_failed
         THEN /\ store' = savepoints[Len(savepoints)]
              /\ log' = Append(log, Entry("warning", "Rolling back all records", 0,
                                          Len(new_objs), "", ""))
              /\ ret' = <<<<>>, validation_failed>>
         ELSE /\ ret' = <<new_objs, validation_failed>>
              /\ UNCHANGED <<store, log>>
    /\ savepoints' = SubSeq(savepoints, 1, Len(savepoints) - 1)
    /\ pc' = "done"
    /\ UNCHANGED <<inputs, csv_bytes, next_pk, data, row, processed, new_objs,
                   validation_failed, calls, exc>>

----------------------------------------------------------------------------
\* The method is invoked again with the same arguments, on the store the
\* previous invocation left; its locals, the log and the call counts start
\* afresh.
Rerun ==
    /\ pc \in {"done", "raised"}
    /\ run_no < MaxRuns
    /\ prev' = [data |-> data, store0 |-> store0, store |-> store, pc |-> pc,
                exc |-> exc, validation_failed |-> validation_failed]
    /\ run_no' = run_no + 1
    /\ store0' = store
    /\ pk0' = next_pk
    /\ data' = IF entry = "run" THEN NoData ELSE data
    /\ pc' = IF entry = "run" THEN "run"
             ELSE IF entry = "_perform_atomic_operation" THEN "atomic" ELSE "op"
    /\ csv_bytes' = "None"
    /\ row' = 0
    /\ processed' = <<>>
    /\ new_objs' = <<>>
    /\ validation_failed' = FALSE
    /\ log' = <<>>
    /\ calls' = NoCalls
    /\ exc' = "None"
    /\ ret' = <<"None">>
    /\ UNCHANGED <<entry, has_perm, model_found, serializer_found, csv_data,
                   csv_file, roll_back_if_error, store, savepoints, next_pk>>

----------------------------------------------------------------------------
Next ==
    \/ RunCheckPermission
    \/ RunResolveModel
    \/ RunResolveSerializer
    \/ RunCheckInput
    \/ RunParse
    \/ RunLookupTypes
    \/ RunRow
    \/ RunLoopEnd
    \/ RunSummary
    \/ RunFinish
    \/ OpStart
    \/ OpRow
    \/ OpReturn
    \/ AtomicEnter
    \/ AtomicExit
    \/ Rerun

Spec == Init /\ [][Next]_vars

Terminated == pc \in {"done", "raised"}

----------------------------------------------------------------------------
\* Observations shared by the properties

\* Records in the store that were not there when the method was entered.
CreatedByRun == store \ store0

\* The input was decoded into rows.
Decoded == data # NoData

\* The row loop is over (it ran to its end or was left by break).
LoopOver ==
    \/ pc \in {"run_summary", "run_finish", "atomic_exit", "done"}
    \/ pc = "raised" /\ exc \in {"RunJobTaskFailed: all imports were rolled back",
                                 "RunJobTaskFailed: not fully successful"}

RowMsgs == {"Created record", "no permission for row", "field error"}

\* Indices of the log entries that report on a row.
RowEntries == {k \in 1..Len(log) : log[k].msg \in RowMsgs}

SuccessEntries == {k \in 1..Len(log) : log[k].msg = "Created record"}

FailureEntries == RowEntries \ SuccessEntries

Valid(e) == e.errors = NoErrors

\* Key the store hands to the object saved from row i of a helper's data list.
PkOfRow(i) == pk0 - 1 + Cardinality({j \in 1..i : Valid(data[j])})

InHelper == entry # "run"

----------------------------------------------------------------------------
\* C1: after a run with roll_back_if_error in which a row failed, the store
\* holds no record the run created: it equals the store before the run.
C1_AllOrNothingLeavesStoreUntouched ==
    (Terminated /\ roll_back_if_error /\ Decoded /\ validation_failed)
        => store = store0

\* C2: without roll_back_if_error, the number of records the run persisted
\* equals the number of rows it reported as created.
C2_PartialCommitCountsMatch ==
    (Terminated /\ ~roll_back_if_error /\ Decoded /\ LoopOver)
        => Cardinality(CreatedByRun) = Cardinality(SuccessEntries)

\* C3: a row that validates but whose saved object the restricted queryset
\* does not contain is reported as a permission failure naming the user and
\* the row, sets validation_failed, and its object is in neither the store
\* nor new_objs; _perform_operation keeps the objects of the other
\* successful rows, _perform_atomic_operation ends with the store as it was.
Unseen(i) == Valid(data[i]) /\ ~data[i].visible

Seen(i) == Valid(data[i]) /\ data[i].visible

C4_DenialBeforeDecode ==
    (entry = "run" /\ ~has_perm) =>
        /\ pc \in {"run", "raised"}
        /\ pc = "raised" => exc = "PermissionDenied"
        /\ calls.parse = 0
        /\ calls.model_class = 0
        /\ ~Decoded
        /\ processed = <<>>
        /\ store = store0
        /\ \A k \in 1..Len(log) : log[k].msg = "no create permission"

C4_Witness ==
    /\ entry = "run"
    /\ ~has_perm
    /\ pc = "raised"
    /\ exc = "PermissionDenied"
    /\ Truthy(csv_data)
    /\ calls.has_perm = 1

\* C5: run() resolves the model and the serializer once each, before the
\* parser is called or a row is processed; when either resolution fails the
\* run raises with nothing decoded, no row processed and the store unchanged.
C5_SchemaResolvedOnceBeforeRows ==
    entry = "run" =>
        /\ calls.model_class <= 1
        /\ calls.get_serializer <= 1
        /\ (calls.parse > 0 \/ Decoded \/ processed # <<>>) =>
              calls.model_class = 1 /\ calls.get_serializer = 1
        /\ (has_perm /\ (~model_found \/ ~serializer_found)) =>
              /\ calls.parse = 0
              /\ ~Decoded
              /\ processed = <<>>
              /\ store = store0
              /\ pc \in {"run", "run_model", "run_serializer", "raised"}
              /\ pc = "raised" =>
                    exc = IF ~model_found THEN "RunJobTaskFailed: Model not found"
                                          ELSE "SerializerNotFound"

C5_Witness ==
    /\ entry = "run"
    /\ pc = "raised"
    /\ exc = "SerializerNotFound"
    /\ calls.model_class = 1
    /\ calls.get_serializer = 1
    /\ Truthy(csv_file)

\* C6: when neither csv_data nor csv_file is supplied, run() raises before
\* the parser is called: nothing is decoded, no row is processed, the store
\* is unchanged, and the error is the input-missing one once the permission
\* and schema checks that precede it have passed.
InputMissing == ~Truthy(csv_data) /\ ~Truthy(csv_file)

C6_MissingInputAborts ==
    (entry = "run" /\ InputMissing) =>
        /\ pc \in {"run", "run_model", "run_serializer", "run_input", "raised"}
        /\ calls.parse = 0
        /\ csv_bytes = "None"
        /\ ~Decoded
        /\ processed = <<>>
        /\ store = store0
        /\ (pc = "raised" /\ has_perm /\ model_found /\ serializer_found) =>
              exc = "RunJobTaskFailed: Either csv_data or csv_file must be provided"

C6_Witness ==
    /\ entry = "run"
    /\ InputMissing
    /\ csv_data = ""
    /\ pc = "raised"
    /\ exc = "RunJobTaskFailed: Either csv_data or csv_file must be provided"

\* C7: when the parser raises ParseError, run() ends by raising
\* RunJobTaskFailed, with no row processed and the store unchanged, whether
\* roll_back_if_error is set or not.
ParseFailed == entry = "run" /\ calls.parse = 1 /\ ~Decoded

C7_ParseErrorIsFatal ==
    ParseFailed =>
        /\ validation_failed
        /\ pc \in {"run_summary", "run_finish", "raised"}
        /\ pc = "raised" =>
              exc = IF roll_back_if_error
                      THEN "RunJobTaskFailed: all imports were rolled back"
                      ELSE "RunJobTaskFailed: not fully successful"
        /\ processed = <<>>
        /\ row = 0
        /\ new_objs = <<>>
        /\ store = store0

C7_Witness ==
    /\ ParseFailed
    /\ pc = "raised"
    /\ ~roll_back_if_error
    /\ exc = "RunJobTaskFailed: not fully successful"

\* C8: with roll_back_if_error, once the row loop is over every decoded row
\* has been processed exactly once, in order, whatever rows failed.
C8_EveryRowProcessed ==
    (roll_back_if_error /\ Decoded /\ LoopOver) =>
        processed = [k \in 1..Len(data) |-> k]

\* C9: once the row loop is over, the rows that have an outcome (a created
\* entry, or failure entries) are exactly the decoded rows, and no row has
\* both a success and a failure.
C9_OneOutcomePerRow ==
    (Decoded /\ LoopOver) =>
        /\ {log[k].row : k \in RowEntries} = 1..Len(data)
        /\ \A k \in SuccessEntries : \A l \in RowEntries \ {k} :
              log[l].row # log[k].row

EntryOfRow(x, e) ==
    \/ x.msg = "Created record" /\ Valid(e) /\ e.visible
    \/ x.msg = "no permission for row" /\ Valid(e) /\ ~e.visible
    \/ x.msg = "field error" /\
          \E f \in 1..Len(e.errors) : e.errors[f][1] = x.field

SavesAttempted == next_pk - pk0

\* The object saved from row i of a helper's data list.
ObjOfRow(i) == Rec(PkOfRow(i), data[i].name, "Object")

EntriesOfRow(i) == {k \in RowEntries : log[k].row = i}

Status ==
    IF pc = "done" THEN "Success"
    ELSE IF pc # "raised" THEN "Running"
    ELSE IF exc = "RunJobTaskFailed: all imports were rolled back" THEN "FullRollback"
    ELSE IF exc = "RunJobTaskFailed: not fully successful" THEN "PartialFailure"
    ELSE IF exc = "DoesNotExist" THEN "Error"
    ELSE "Aborted"

\* One of the checks of lines 152-176 fails.
PreFlightFailed ==
    ~has_perm \/ ~model_found \/ ~serializer_found \/ InputMissing

\* The correspondence of C13 between how run() ended and what happened,
\* apart from what FullRollback says of the store.
StatusMatchesFailures ==
    /\ Status = "Success" <=> (~PreFlightFailed /\ ~validation_failed)
    /\ Status = "FullRollback" <=>
          (~PreFlightFailed /\ validation_failed /\ roll_back_if_error)
    /\ Status = "PartialFailure" <=>
          (~PreFlightFailed /\ validation_failed /\ ~roll_back_if_error)
    /\ Status = "Aborted" <=> PreFlightFailed
    /\ Status = "Aborted" => processed = <<>> /\ store = store0

\* C13: a finished run() is Success exactly when nothing failed, FullRollback
\* exactly when a failure occurred with roll_back_if_error, and then no record
\* of the run is in the store, PartialFailure exactly when a failure occurred
\* without roll_back_if_error, and Aborted exactly when a pre-flight check
\* failed, before any row was processed.  (A failure is a failed row or a
\* parse error; a run ended by a missing LocationType or Status is left out.)
C13_FinalStatus ==
    (entry = "run" /\ Terminated /\ Status # "Error") =>
        /\ StatusMatchesFailures
        /\ Status = "FullRollback" => CreatedByRun = {}

\* run() is past its summary (lines 220-225).
SummaryLogged ==
    entry = "run" /\
    (pc \in {"run_finish", "done"} \/ (pc = "raised" /\ Status \in {"FullRollback", "PartialFailure"}))

\* C15: once run() has logged its summary, the "No objects were created"
\* warning is in the log only if the run added no record to the store, and a
\* logged created count equals the number of records the run added.
C15_SummaryAgreesWithStore ==
    SummaryLogged =>
      \A k \in 1..Len(log) :
        /\ log[k].msg = "No objects were created" => CreatedByRun = {}
        /\ log[k].msg = "Created objects" => log[k].n = Cardinality(CreatedByRun)

\* C16: in run(), for every processed row whose state is a code of
\* us_states, the store holds a State record named with the full name of the
\* code, and the run has added no State record named with the code.
C16_StateRecordHasFullName ==
    (entry = "run" /\ Decoded) =>
      \A i \in 1..row :
        data[i].state \in DOMAIN us_states =>
          /\ \E r \in store :
                r.type = "State" /\ r.name = us_states[data[i].state]
          /\ \A r \in CreatedByRun :
                r.type = "State" => r.name # data[i].state

\* The rows of data whose state run() does not recognize (lines 204-206).
Recognized(obj) == StateName(obj) \in us_states_values

BadRows == {i \in 1..Len(data) : ~Recognized(data[i])}

FirstBadRow == CHOOSE b \in BadRows : \A i \in BadRows : b <= i

\* Whether record r is one the loop writes for row obj (lines 209-210).
WrittenFor(r, obj) ==
    \/ r.type = "State" /\ r.name = obj.state
    \/ r.type = "City" /\ r.name = obj.city

\* C17: in run(), the loop body runs for no row after the first row with an
\* unrecognized state; when it has run for that row validation_failed is set
\* and the loop is over; and every record the run has added was written for
\* a row before that one.
C17_StopsAtFirstUnknownState ==
    (entry = "run" /\ Decoded /\ BadRows # {}) =>
        /\ row < FirstBadRow
        /\ Len(processed) <= FirstBadRow
        /\ Len(processed) = FirstBadRow =>
              /\ validation_failed
              /\ row = FirstBadRow - 1
              /\ pc \in {"run_summary", "run_finish", "raised"}
        /\ LoopOver => Len(processed) = FirstBadRow
        /\ \A r \in CreatedByRun :
              \E i \in 1..(FirstBadRow - 1) : WrittenFor(r, data[i])

C17_Witness ==
    /\ entry = "run"
    /\ pc = "raised"
    /\ Len(data) = 2
    /\ BadRows # {}
    /\ FirstBadRow = 2
    /\ validation_failed
    /\ Cardinality(CreatedByRun) = 2

\* The previous invocation decoded its input, had a failing row and ran with
\* roll_back_if_error.
PrevRolledBack ==
    /\ run_no > 1
    /\ roll_back_if_error
    /\ prev.data # NoData
    /\ prev.validation_failed

\* C14: an invocation with roll_back_if_error in which a row failed leaves
\* no residue: the next invocation with the same input starts from the store
\* the failed one started from, and ends with the same store and the same
\* outcome.
C14_RollbackLeavesNoResidue ==
    PrevRolledBack =>
        /\ store0 = prev.store0
        /\ Terminated => (store = prev.store /\ exc = prev.exc)

\* run() is in its second or later invocation on an input whose rows all
\* carry recognized states, and the previous invocation returned normally.
SecondRunOfGoodInput ==
    /\ entry = "run"
    /\ run_no > 1
    /\ Decoded
    /\ BadRows = {}
    /\ prev.pc = "done"

\* C18: run() invoked again with the same input, all of whose rows carry
\* recognized states, adds no record: at every step of the later invocation
\* the store is the store the earlier one left, and it returns normally.
C18_SecondRunCreatesNothing ==
    SecondRunOfGoodInput =>
        /\ data = prev.data
        /\ store0 = prev.store
        /\ store = store0
        /\ next_pk = pk0
        /\ Terminated => pc = "done"

C18_Witness ==
    /\ SecondRunOfGoodInput
    /\ pc = "done"
    /\ Len(data) = 2
    /\ data[1].state = "TX"
    /\ data[2].state = "Texas"
    /\ prev.store0 = {}
    /\ Cardinality(store) >= 3

====
